---- MODULE Spec2Model ----
(***************************************************************************)
(* A model of backend/app/main.py of the desktop launcher: the Xiaohongshu *)
(* login watcher (a daemon thread), the publish sequencer (a background    *)
(* task of the event loop) and the in-memory job/status tracker.           *)
(*                                                                         *)
(* Strings of the source that are not ASCII are written as ASCII tokens;   *)
(* each token names the literal it stands for where it is defined.         *)
(* The microsecond timestamps of PublishStatus, OpenAppResponse and        *)
(* user_info (datetime.now()) are not part of the model's records.         *)
(*                                                                         *)
(* The local variables of a function are cleared when the function         *)
(* returns; what it did to the world (files, browser sessions, the global  *)
(* dict and flag) stays.                                                   *)
(***************************************************************************)
EXTENDS Integers, Sequences, FiniteSets, TLC

\* ------------------------------------------------------------------ bounds
MaxWatchers == 2      \* login-watcher threads ever started
MaxJobs == 2          \* publish requests ever accepted
MaxPlatforms == 2     \* length of a request's platform list
MaxClock == 11        \* last second of the wall clock

\* ------------------------------------------------------- program constants
MaxPolls == 30        \* if wait_count >= 30
LoginCloseDelay == 2  \* time.sleep(2) before driver.quit() in the watcher
SleepSecs == 5        \* await asyncio.sleep(5)

VARIABLES
    clock,                    \* datetime.now(), in whole seconds
    selenium_monitor_active,  \* the global flag
    publish_status,           \* the global dict: job_id -> (platform -> record)
    cookie_file,              \* COOKIE_FILE: NoFile or the cookie set it holds
    latest_login,             \* data/latest_login.json: <<>> or <<user_info>>
    user_login_files,         \* data/user_login_<stamp>.json: stamp -> user_info
    watchers,                 \* the monitor threads, by start order
    tasks,                    \* the publish background tasks, by request order
    loop,                     \* the task running on the event loop, 0 when idle
    response                  \* what the step just taken answered its caller

vars == <<clock, selenium_monitor_active, publish_status, cookie_file,
          latest_login, user_login_files, watchers, tasks, loop, response>>

\* what the launcher and the watcher never touch
publishState == <<publish_status, tasks, loop>>
\* what the publish side never touches
loginState == <<selenium_monitor_active, cookie_file, latest_login,
                user_login_files, watchers>>

NoFile == "<no file>"
NoCookies == "<none>"
\* what driver.get_cookies() can return: opaque cookie sets
CookieSets == {"cookiesA", "cookiesB"}

\* the step was no API call, or the call has not answered
NoResponse ==
    [endpoint |-> "", code |-> 0, success |-> FALSE, message |-> "",
     action |-> "", body |-> <<>>]

OpenAppResponse(success, message, action) ==
    [endpoint |-> "open_app", code |-> 200, success |-> success,
     message |-> message, action |-> action, body |-> <<>>]

HTTPException(endpoint, code, detail) ==
    [endpoint |-> endpoint, code |-> code, success |-> FALSE,
     message |-> detail, action |-> "", body |-> <<>>]

\* ============================================================ data tables
\* apps_database: key, name, display_name, special_handler.
\* "xiaohongshu_zh" is the Chinese display name of Xiaohongshu (also its
\* key), "weibo_zh" that of Weibo.
apps_database ==
    { [key |-> "xiaohongshu_zh", name |-> "Xiaohongshu", display_name |-> "xiaohongshu_zh",
       special_handler |-> "xiaohongshu_login"],
      [key |-> "weibo_zh", name |-> "Weibo", display_name |-> "weibo_zh",
       special_handler |-> ""],
      [key |-> "TikTok", name |-> "TikTok", display_name |-> "TikTok",
       special_handler |-> ""] }

\* app_name values a caller may send
AppNames == {"xiaohongshu_zh", "Xiaohongshu", "Weibo", "no_such_app"}

\* open_app's lookup: apps_database.get(app_name), then the entry whose
\* display_name or name equals app_name; the empty set when there is none.
FindApp(app_name) ==
    LET byKey == {a \in apps_database : a.key = app_name}
        byName == {a \in apps_database : a.display_name = app_name \/ a.name = app_name}
    IN IF byKey # {} THEN byKey ELSE byName

\* ================================================================ the clock
\* The clock is read for job ids and file stamps (one-second resolution) and
\* when a sleep starts or ends. Time is kept to the seconds that are told
\* apart by such a reading: the second after one that named a job or a file,
\* and the second at which the next pending sleep ends. The synchronous
\* sections of the event loop are not timed (the time.sleep calls of lines
\* 345 and 360 block the loop; their length is not modelled).
PendingWakes ==
    {tasks[t].wake : t \in {u \in DOMAIN tasks : tasks[u].pc = "sleeping"}}
    \cup {watchers[w].wake : w \in {v \in DOMAIN watchers : watchers[v].pc = "success_sleep"}}

SecondUsed == clock \in DOMAIN publish_status \/ clock \in DOMAIN user_login_files

Min(S) == CHOOSE x \in S : \A y \in S : x <= y

Tick ==
    /\ loop = 0
    /\ \/ /\ SecondUsed
          /\ clock' = clock + 1
       \/ /\ {k \in PendingWakes : k > clock} # {}
          /\ clock' = Min({k \in PendingWakes : k > clock})
    /\ clock' <= MaxClock
    /\ response' = NoResponse
    /\ UNCHANGED <<selenium_monitor_active, publish_status, cookie_file, latest_login,
                   user_login_files, watchers, tasks, loop>>

\* ============================================================ login watcher
\* driver: the local variable, "none" (unbound), "open", "closed".
\* leaked: a browser session that was started and that no variable holds.
\* detected: the success indicator was found (line 241).
\* outcome, n_cookie, n_hist, n_latest: how the watch ended and how often it
\* wrote the cookie file, a timestamped file and the latest file.
IdleWatcher ==
    [pc |-> "idle", wait_count |-> 0, driver |-> "none", leaked |-> 0,
     detected |-> FALSE, cookies |-> NoCookies, wake |-> 0, outcome |-> "none",
     n_cookie |-> 0, n_hist |-> 0, n_latest |-> 0]

WatcherIds == 1..MaxWatchers

\* the threads that were started and have not run their finally clause
Running == {w \in WatcherIds : watchers[w].pc \notin {"idle", "done"}}

\* the exception ends the thread and the finally clause is not run
Raise_NoFinally(w, how) ==
    watchers' = [watchers EXCEPT ![w] =
        [IdleWatcher EXCEPT !.pc = "done", !.driver = watchers[w].driver,
                            !.leaked = watchers[w].leaked, !.outcome = how,
                            !.detected = watchers[w].detected]]

\* an exception leaves the try block for line 275 or 279, then line 282
Raise(w, how) ==
    watchers' = [watchers EXCEPT ![w].pc = "finally", ![w].outcome = how]

\* user_info built without the cookies that were extracted
user_info_NoCookies(cookies) ==
    [cookies |-> NoCookies, platform |-> "xiaohongshu", status |-> "logged_in"]

\* the user_info dict built at lines 253-258
user_info(cookies) ==
    [cookies |-> cookies, platform |-> "xiaohongshu", status |-> "logged_in"]

\* ------------------------------------------------------------ open_app
\* the guard of line 482 left out: every request starts a thread
MonitorGuard_Always == TRUE

\* line 482: if not selenium_monitor_active
MonitorGuard == ~selenium_monitor_active

\* the thread object created at line 486: the first watcher never started
NewWatcher == CHOOSE w \in WatcherIds :
                  /\ watchers[w].pc = "idle"
                  /\ \A v \in WatcherIds : watchers[v].pc = "idle" => w <= v

\* lines 473-476: the app is not in the catalog
OpenAppNotFound(app_name) ==
    /\ loop = 0
    /\ FindApp(app_name) = {}
    /\ response' = HTTPException("open_app", 404, "Application not found")
    /\ UNCHANGED <<clock, loginState, publishState>>

\* lines 479-497: the special handler, monitor not active: set the flag and
\* start the thread. "login_prompt" is the message of line 494.
OpenAppStartMonitor(app_name) ==
    /\ loop = 0
    /\ \E app \in FindApp(app_name) : app.special_handler = "xiaohongshu_login"
    /\ MonitorGuard
    /\ \E w \in WatcherIds : watchers[w].pc = "idle"
    /\ selenium_monitor_active' = TRUE
    /\ watchers' = [watchers EXCEPT ![NewWatcher].pc = "get_driver"]
    /\ response' = OpenAppResponse(TRUE, "login_prompt", "selenium_login")
    /\ UNCHANGED <<clock, cookie_file, latest_login, user_login_files, publishState>>

\* lines 498-504: the special handler, monitor active: "already_running" is
\* the message of line 502.
OpenAppAlreadyRunning(app_name) ==
    /\ loop = 0
    /\ \E app \in FindApp(app_name) : app.special_handler = "xiaohongshu_login"
    /\ ~MonitorGuard
    /\ response' = OpenAppResponse(FALSE, "already_running", "")
    /\ UNCHANGED <<clock, loginState, publishState>>

\* lines 506-531: any other app: the URL is handed to the operating system,
\* which may fail.
OpenAppNormal(app_name) ==
    /\ loop = 0
    /\ \E app \in FindApp(app_name) : app.special_handler # "xiaohongshu_login"
    /\ \E ok \in BOOLEAN :
          response' = OpenAppResponse(ok, IF ok THEN "opened" ELSE "failed_to_open", "")
    /\ UNCHANGED <<clock, loginState, publishState>>

open_app(app_name) ==
    \/ OpenAppNotFound(app_name)
    \/ OpenAppStartMonitor(app_name)
    \/ OpenAppAlreadyRunning(app_name)
    \/ OpenAppNormal(app_name)

\* ------------------------------------------------ monitor_xiaohongshu_login
\* what a call of get_edge_driver() can do: return a driver, raise
\* FileNotFoundError (line 185), re-raise what webdriver.Edge raised (line
\* 199), or re-raise what set_window_size raised (line 200) after the browser
\* was started: the session is then open and no variable holds it
get_edge_driver == {"ok", "FileNotFoundError", "Exception", "WindowSizeException"}

\* a step of the thread that touches only the thread
threadFrame ==
    /\ response' = NoResponse
    /\ UNCHANGED <<clock, selenium_monitor_active, cookie_file, latest_login,
                   user_login_files, publishState>>

\* line 222
MonitorGetDriver(w) ==
    /\ watchers[w].pc = "get_driver"
    /\ \E r \in get_edge_driver :
          CASE r = "ok" -> watchers' = [watchers EXCEPT ![w].pc = "navigate",
                                                        ![w].driver = "open"]
            [] r = "FileNotFoundError" -> Raise(w, "driver_missing")
            [] r = "WindowSizeException" ->
                 watchers' = [watchers EXCEPT ![w].pc = "finally", ![w].leaked = 1,
                                              ![w].outcome = "error"]
            [] OTHER -> Raise(w, "error")
    /\ threadFrame

\* lines 225-230
MonitorNavigate(w) ==
    /\ watchers[w].pc = "navigate"
    /\ \/ watchers' = [watchers EXCEPT ![w].pc = "poll", ![w].wait_count = 0]
       \/ Raise(w, "error")
    /\ threadFrame

\* the bound of line 269 tested with > instead of >=
PollsExhausted_OffByOne(n) == n > MaxPolls

\* line 269: the bound on timed-out polls
PollsExhausted(n) == n >= MaxPolls

\* lines 267-273: a TimeoutException raised inside the inner try block, by
\* the wait or by any later driver call, is counted; wait_flag says whether
\* the loop goes on
Timeout(watcher, wait_flag) ==
    [watcher EXCEPT !.wait_count = @ + 1,
                    !.pc = IF PollsExhausted(watcher.wait_count + 1) THEN "timeout_quit"
                           ELSE IF wait_flag THEN "poll" ELSE "finally"]

\* lines 232-239 and 267-273: one WebDriverWait(driver, 10).until(...)
MonitorPoll(w) ==
    /\ watchers[w].pc = "poll"
    /\ \E r \in {"found", "TimeoutException", "Exception"} :
          CASE r = "found" ->
                 watchers' = [watchers EXCEPT ![w].pc = "get_cookies",
                                              ![w].detected = TRUE]
            [] r = "TimeoutException" ->
                 watchers' = [watchers EXCEPT ![w] = Timeout(@, TRUE)]
            [] OTHER -> Raise(w, "error")
    /\ threadFrame

\* lines 270-272: driver.quit() then break. quit() ends the browser session
\* also when it raises (the driver service is stopped in its finally clause).
MonitorTimeoutQuit(w) ==
    /\ watchers[w].pc = "timeout_quit"
    /\ \E raised \in BOOLEAN :
          watchers' = [watchers EXCEPT
              ![w].pc = "finally", ![w].driver = "closed",
              ![w].outcome = IF raised THEN "error"
                             ELSE IF watchers[w].n_cookie = 0 THEN "timeout"
                             ELSE @]
    /\ threadFrame

\* line 244
MonitorGetCookies(w) ==
    /\ watchers[w].pc = "get_cookies"
    /\ \/ \E c \in CookieSets :
             watchers' = [watchers EXCEPT ![w].pc = "write_cookie", ![w].cookies = c]
       \/ watchers' = [watchers EXCEPT ![w] = Timeout(@, TRUE)]
       \/ Raise(w, "error")
    /\ threadFrame

\* lines 247-258: the cookie file is overwritten wholesale, then user_info is
\* built; open() failing leaves the file as it was
MonitorWriteCookie(w) ==
    /\ watchers[w].pc = "write_cookie"
    /\ \/ /\ cookie_file' = watchers[w].cookies
          /\ watchers' = [watchers EXCEPT ![w].pc = "save_hist", ![w].n_cookie = @ + 1]
       \/ /\ Raise(w, "error")
          /\ UNCHANGED cookie_file
    /\ response' = NoResponse
    /\ UNCHANGED <<clock, selenium_monitor_active, latest_login, user_login_files,
                   publishState>>

\* after save_user_data: lines 260-263, wait_flag = False and time.sleep(2)
AfterSave(watcher, now) ==
    [watcher EXCEPT !.pc = "success_sleep", !.wake = now + LoginCloseDelay]

\* save_user_data, lines 413-417: the timestamped copy, named by the second.
\* An exception is caught at line 422 and the latest record is then not
\* written.
SaveUserLogin(w) ==
    /\ watchers[w].pc = "save_hist"
    /\ \/ /\ user_login_files' = (clock :> user_info(watchers[w].cookies))
                                    @@ user_login_files
          /\ watchers' = [watchers EXCEPT ![w].pc = "save_latest", ![w].n_hist = @ + 1]
       \/ /\ watchers' = [watchers EXCEPT ![w] = AfterSave(@, clock)]
          /\ UNCHANGED user_login_files
    /\ response' = NoResponse
    /\ UNCHANGED <<clock, selenium_monitor_active, cookie_file, latest_login,
                   publishState>>

\* save_user_data, lines 419-423
SaveLatestLogin(w) ==
    /\ watchers[w].pc = "save_latest"
    /\ \/ /\ latest_login' = <<user_info(watchers[w].cookies)>>
          /\ watchers' = [watchers EXCEPT ![w] =
                             [AfterSave(@, clock) EXCEPT !.n_latest = @ + 1]]
       \/ /\ watchers' = [watchers EXCEPT ![w] = AfterSave(@, clock)]
          /\ UNCHANGED latest_login
    /\ response' = NoResponse
    /\ UNCHANGED <<clock, selenium_monitor_active, cookie_file, user_login_files,
                   publishState>>

\* lines 263-265: after the sleep, driver.quit(); wait_flag is False, so the
\* loop ends
MonitorSuccessQuit(w) ==
    /\ watchers[w].pc = "success_sleep"
    /\ clock >= watchers[w].wake
    /\ \E r \in {"ok", "TimeoutException", "Exception"} :
          watchers' = [watchers EXCEPT ![w] =
              LET quit == [@ EXCEPT !.driver = "closed", !.outcome = "success"] IN
              CASE r = "ok" -> [quit EXCEPT !.pc = "finally"]
                [] r = "TimeoutException" -> Timeout(quit, FALSE)
                [] OTHER -> [quit EXCEPT !.pc = "finally", !.outcome = "error"]]
    /\ threadFrame

\* the thread has ended: its locals are gone, its browser sessions are not
Ended(watcher) ==
    [IdleWatcher EXCEPT !.pc = "done", !.driver = watcher.driver,
                        !.leaked = watcher.leaked, !.outcome = watcher.outcome,
                        !.detected = watcher.detected]

\* lines 282-284
MonitorFinally(w) ==
    /\ watchers[w].pc = "finally"
    /\ selenium_monitor_active' = FALSE
    /\ watchers' = [watchers EXCEPT ![w] = Ended(@)]
    /\ response' = NoResponse
    /\ UNCHANGED <<clock, cookie_file, latest_login, user_login_files, publishState>>

monitor_xiaohongshu_login(w) ==
    \/ MonitorGetDriver(w)
    \/ MonitorNavigate(w)
    \/ MonitorPoll(w)
    \/ MonitorTimeoutQuit(w)
    \/ MonitorGetCookies(w)
    \/ MonitorWriteCookie(w)
    \/ SaveUserLogin(w)
    \/ SaveLatestLogin(w)
    \/ MonitorSuccessQuit(w)
    \/ MonitorFinally(w)

\* ========================================================= publish sequencer
\* platform ids a caller sends: the automated platform, a registered
\* placeholder, and "tiktok", which has no registered publisher
PlatformIds == {"xiaohongshu", "weibo", "tiktok"}

\* the keys of PLATFORM_PUBLISHERS
PLATFORM_PUBLISHERS == {"xiaohongshu", "bilibili", "weibo"}

\* PublishRequest.platforms: any list, the empty one included
PlatformLists == UNION {[1..n -> PlatformIds] : n \in 0..MaxPlatforms}

\* PublishRequest.description: empty or not. It is read at line 337 only, and
\* is drawn there.
Descriptions == {"", "some text"}

\* PublishStatus; detail is the str(e) a failure message carries, "" otherwise.
\* Messages: "waiting" line 580, "publishing" line 610, "login_first" line 298,
\* "published" line 366, "publish_failed" line 379, "bilibili_in_development"
\* line 389, "weibo_in_development" line 398, "unsupported_platform" line 625.
PublishStatus(platform, status, message, detail) ==
    [platform |-> platform, status |-> status, message |-> message, detail |-> detail]

NoResult == PublishStatus("", "", "", "")

TaskIds == 1..MaxJobs

\* pc: "unsubmitted", "queued" (added to the background tasks), "dispatch"
\* (line 615), "xhs" (inside publish_to_xiaohongshu, at `step`), "sleeping"
\* (line 630), "done".
\* i: the index of the platform of the current iteration.
\* driver, calls, err, result: locals of publish_to_xiaohongshu; calls lists
\* the browser-automation calls the attempt has made.
\* open_sessions: browser sessions the task started and left open.
\* attempted, results: how many platforms were marked uploading and how many
\* results were stored.
IdleTask ==
    [pc |-> "unsubmitted", job_id |-> 0, platforms |-> <<>>,
     i |-> 0, wake |-> 0, step |-> "", driver |-> "none", leaked |-> 0,
     calls |-> <<>>, err |-> "", result |-> NoResult,
     open_sessions |-> 0, attempted |-> 0, results |-> 0]

\* the task the next accepted publish request gets
NewTask == CHOOSE t \in TaskIds :
               /\ tasks[t].pc = "unsubmitted"
               /\ \A u \in TaskIds : tasks[u].pc = "unsubmitted" => t <= u

Range(seq) == {seq[k] : k \in 1..Len(seq)}

\* an id that also counts the requests accepted before: never given twice
JobId_Unique(now) ==
    now + (MaxClock + 1) * Cardinality({t \in TaskIds : tasks[t].pc # "unsubmitted"})

\* line 573: job_id = datetime.now().strftime('%Y%m%d_%H%M%S'), the clock at
\* one-second resolution
JobId(now) == now

\* the records created in the status the task gives them later
PendingRecords_Uploading(platforms) ==
    [p \in Range(platforms) |-> PublishStatus(p, "uploading", "publishing", "")]

\* lines 574-582: a fresh dict with a pending record for every listed platform
PendingRecords(platforms) ==
    [p \in Range(platforms) |-> PublishStatus(p, "pending", "waiting", "")]

\* lines 568-570: the video file does not exist
PublishVideoNotFound ==
    /\ loop = 0
    /\ response' = HTTPException("publish", 404, "video file not found")
    /\ UNCHANGED <<clock, loginState, publishState>>

\* lines 572-599: the records are initialised, then the task is added
PublishVideoAccepted(platforms) ==
    /\ loop = 0
    /\ \E t \in TaskIds : tasks[t].pc = "unsubmitted"
    /\ LET job_id == JobId(clock) IN
         /\ publish_status' = (job_id :> PendingRecords(platforms)) @@ publish_status
         /\ tasks' = [tasks EXCEPT ![NewTask] =
                         [IdleTask EXCEPT !.pc = "queued", !.job_id = job_id,
                                          !.platforms = platforms]]
         /\ response' = [endpoint |-> "publish", code |-> 200, success |-> TRUE,
                         message |-> "started", action |-> "",
                         body |-> <<job_id, platforms>>]
    /\ UNCHANGED <<clock, loginState, loop>>

publish_video ==
    \/ PublishVideoNotFound
    \/ \E platforms \in PlatformLists : PublishVideoAccepted(platforms)

\* ------------------------------------------------------ publish_to_platforms
\* publish_status[job_id][platform_id] = record
SetStatus(job_id, platform_id, record) ==
    publish_status' = [publish_status EXCEPT
                          ![job_id] = (platform_id :> record) @@ publish_status[job_id]]

\* line 605: the index of the next iteration
NextIndex(i) == i + 1

\* every platform from platforms[k] on is marked uploading at once
BeginPlatform_MarkAll(t, k) ==
    /\ publish_status' = [publish_status EXCEPT ![tasks[t].job_id] =
           [p \in {tasks[t].platforms[j] : j \in k..Len(tasks[t].platforms)}
               |-> PublishStatus(p, "uploading", "publishing", "")] @@ @]
    /\ tasks' = [tasks EXCEPT ![t].pc = "dispatch", ![t].i = k, ![t].attempted = @ + 1]
    /\ loop' = t

\* the publisher is run off the event loop (in a worker thread)
BeginPlatform_OffLoop(t, k) ==
    /\ SetStatus(tasks[t].job_id, tasks[t].platforms[k],
                 PublishStatus(tasks[t].platforms[k], "uploading", "publishing", ""))
    /\ tasks' = [tasks EXCEPT ![t].pc = "dispatch", ![t].i = k, ![t].attempted = @ + 1]
    /\ loop' = 0

\* lines 605-612: the loop takes platforms[k] and marks it uploading. The task
\* runs on the event loop and does not await before the publisher returned.
BeginPlatform(t, k) ==
    /\ SetStatus(tasks[t].job_id, tasks[t].platforms[k],
                 PublishStatus(tasks[t].platforms[k], "uploading", "publishing", ""))
    /\ tasks' = [tasks EXCEPT ![t].pc = "dispatch", ![t].i = k, ![t].attempted = @ + 1]
    /\ loop' = t

\* the background task starts: the first iteration, or none for an empty list
TaskStart(t) ==
    /\ loop = 0
    /\ tasks[t].pc = "queued"
    /\ IF tasks[t].platforms = <<>>
       THEN /\ tasks' = [tasks EXCEPT ![t].pc = "done"]
            /\ UNCHANGED <<publish_status, loop>>
       ELSE BeginPlatform(t, NextIndex(0))
    /\ response' = NoResponse
    /\ UNCHANGED <<clock, loginState>>

\* lines 619-630: the publisher's result (or the unsupported record) is
\* stored, then the task awaits asyncio.sleep(5) and yields the event loop;
\* the publisher's locals are gone
StoreResult(t, record) ==
    /\ SetStatus(tasks[t].job_id, tasks[t].platforms[tasks[t].i], record)
    /\ tasks' = [tasks EXCEPT ![t] =
           [@ EXCEPT !.pc = "sleeping", !.wake = clock + SleepSecs,
                     !.results = @ + 1, !.step = "", !.driver = "none",
                     !.leaked = 0, !.calls = <<>>, !.err = "", !.result = NoResult,
                     !.open_sessions = @ + tasks[t].leaked
                                         + (IF tasks[t].driver = "open" THEN 1 ELSE 0)]]
    /\ loop' = 0

\* publish_to_bilibili, publish_to_weibo: the fixed placeholder results
publish_to_bilibili ==
    PublishStatus("bilibili", "pending", "bilibili_in_development", "")

publish_to_weibo ==
    PublishStatus("weibo", "pending", "weibo_in_development", "")

\* lines 621-627
Unsupported(platform_id) ==
    PublishStatus(platform_id, "failed", "unsupported_platform", "")

\* every platform id is handed to the Xiaohongshu publisher
DispatchOther_Default(t) ==
    /\ tasks[t].pc = "dispatch"
    /\ tasks[t].platforms[tasks[t].i] # "xiaohongshu"
    /\ tasks' = [tasks EXCEPT ![t].pc = "xhs", ![t].step = "check_cookie"]
    /\ response' = NoResponse
    /\ UNCHANGED <<clock, loginState, publish_status, loop>>

\* lines 615-627 for a platform other than xiaohongshu: a registered
\* placeholder publisher, or no publisher at all
DispatchOther(t) ==
    /\ tasks[t].pc = "dispatch"
    /\ LET p == tasks[t].platforms[tasks[t].i] IN
         /\ p # "xiaohongshu"
         /\ StoreResult(t, IF p \notin PLATFORM_PUBLISHERS THEN Unsupported(p)
                           ELSE IF p = "bilibili" THEN publish_to_bilibili
                           ELSE publish_to_weibo)
    /\ response' = NoResponse
    /\ UNCHANGED <<clock, loginState>>

\* a publisher that removes the cookie file as it goes
publisherFrame_DeletesCookie ==
    /\ response' = NoResponse
    /\ cookie_file' = NoFile
    /\ UNCHANGED <<clock, selenium_monitor_active, latest_login, user_login_files,
                   watchers, publish_status, loop>>

\* a step of the publisher that touches only its locals
publisherFrame ==
    /\ response' = NoResponse
    /\ UNCHANGED <<clock, loginState, publish_status, loop>>

\* lines 615-619 for xiaohongshu: the publisher is called
DispatchXiaohongshu(t) ==
    /\ tasks[t].pc = "dispatch"
    /\ tasks[t].platforms[tasks[t].i] = "xiaohongshu"
    /\ tasks' = [tasks EXCEPT ![t].pc = "xhs", ![t].step = "check_cookie"]
    /\ publisherFrame

\* line 605 after line 630: the sleep is over; the next platform, or the end
TaskWake(t) ==
    /\ loop = 0
    /\ tasks[t].pc = "sleeping"
    /\ clock >= tasks[t].wake
    /\ IF tasks[t].i < Len(tasks[t].platforms)
       THEN BeginPlatform(t, NextIndex(tasks[t].i))
       ELSE /\ tasks' = [tasks EXCEPT ![t].pc = "done", ![t].wake = 0]
            /\ UNCHANGED <<publish_status, loop>>
    /\ response' = NoResponse
    /\ UNCHANGED <<clock, loginState>>

\* ---------------------------------------------------- publish_to_xiaohongshu
\* the publisher reaches a return statement with `record`
Return(task, record) == [task EXCEPT !.step = "return", !.result = record]

\* the exception is caught and the attempt is reported as published
Except_ReportsSuccess(task, call) ==
    [Return(task, PublishStatus("xiaohongshu", "success", "published", ""))
        EXCEPT !.err = call,
               !.driver = IF @ = "open" THEN "closed" ELSE @]

\* lines 370-381: `call` raised. driver.quit() if a driver is bound (an
\* unbound name raises inside the bare try), then the failed record with the
\* error text
Except(task, call) ==
    [Return(task, PublishStatus("xiaohongshu", "failed", "publish_failed", "str(e)"))
        EXCEPT !.err = call,
               !.driver = IF @ = "open" THEN "closed" ELSE @]

\* the check of line 294 left out
CookieFileExists_Always == TRUE

\* line 294: os.path.exists(COOKIE_FILE)
CookieFileExists == cookie_file # NoFile

\* lines 294-302
XhsCheckCookie(t) ==
    /\ tasks[t].pc = "xhs"
    /\ tasks[t].step = "check_cookie"
    /\ tasks' = [tasks EXCEPT ![t] =
           IF ~CookieFileExists
           THEN Return(@, PublishStatus("xiaohongshu", "failed", "login_first", ""))
           ELSE [@ EXCEPT !.step = "get_driver"]]
    /\ publisherFrame

\* line 302
XhsGetDriver(t) ==
    /\ tasks[t].pc = "xhs"
    /\ tasks[t].step = "get_driver"
    /\ \E r \in get_edge_driver :
          tasks' = [tasks EXCEPT ![t] =
              LET called == [@ EXCEPT !.calls = Append(@, "get_driver")] IN
              CASE r = "ok" -> [called EXCEPT !.step = "home", !.driver = "open"]
                [] r = "WindowSizeException" ->
                     Except([called EXCEPT !.leaked = 1], "get_driver")
                [] OTHER -> Except(called, "get_driver")]
    /\ publisherFrame

\* the gated steps of lines 305-361 in program order: "home" line 305,
\* "load_cookies" 308-312, "publish_page" 315, "file_input" 320-321,
\* "upload_wait" 325-327, "title" 331-333, "description" 337-343,
\* "submit_locate" 348-350, "submit_enabled" 351, "submit_click" 352,
\* "success_wait" 356-357, "quit" 360-361
XhsSteps == <<"home", "load_cookies", "publish_page", "file_input", "upload_wait",
              "title", "description", "submit_locate", "submit_enabled",
              "submit_click", "success_wait", "quit">>

StepIndex(step) == CHOOSE k \in 1..Len(XhsSteps) : XhsSteps[k] = step

\* the title is typed as soon as the file is chosen: the wait for the
\* upload confirmation is skipped
NextStep_NoUploadWait(step, description) ==
    LET nxt == XhsSteps[StepIndex(step) + 1]
    IN IF nxt = "upload_wait" THEN "title"
       ELSE IF nxt = "description" /\ description = "" THEN "submit_locate" ELSE nxt

\* the step after `step`; line 337 skips the description when it is empty
NextStep(step, description) ==
    LET nxt == XhsSteps[StepIndex(step) + 1]
    IN IF nxt = "description" /\ description = "" THEN "submit_locate" ELSE nxt

\* one step that either completes or raises into line 370
XhsStep(t) ==
    /\ tasks[t].pc = "xhs"
    /\ tasks[t].step \in Range(XhsSteps) \ {"description", "quit"}
    /\ \E ok \in BOOLEAN, description \in Descriptions :
          tasks' = [tasks EXCEPT ![t] =
              LET called == [@ EXCEPT !.calls = Append(@, tasks[t].step)] IN
              IF ok THEN [called EXCEPT !.step = NextStep(tasks[t].step, description)]
              ELSE Except(called, tasks[t].step)]
    /\ publisherFrame

\* lines 337-343: a missing description field is tolerated, any other
\* exception is not
XhsDescription(t) ==
    /\ tasks[t].pc = "xhs"
    /\ tasks[t].step = "description"
    /\ \E r \in {"ok", "NoSuchElementException", "Exception"} :
          tasks' = [tasks EXCEPT ![t] =
              LET called == [@ EXCEPT !.calls = Append(@, "description")] IN
              IF r = "Exception" THEN Except(called, "description")
              ELSE [called EXCEPT !.step = NextStep("description", "some text")]]
    /\ publisherFrame

\* lines 360-368: driver.quit() ends the session, also when it raises; if it
\* raises, line 370 catches it
XhsQuit(t) ==
    /\ tasks[t].pc = "xhs"
    /\ tasks[t].step = "quit"
    /\ \E raised \in BOOLEAN :
          tasks' = [tasks EXCEPT ![t] =
              LET called == [@ EXCEPT !.calls = Append(@, "quit"), !.driver = "closed"] IN
              IF raised THEN Except(called, "quit")
              ELSE Return(called, PublishStatus("xiaohongshu", "success", "published", ""))]
    /\ publisherFrame

\* line 620: publish_status[job_id][platform_id] = result, then line 630
XhsStore(t) ==
    /\ tasks[t].pc = "xhs"
    /\ tasks[t].step = "return"
    /\ StoreResult(t, tasks[t].result)
    /\ response' = NoResponse
    /\ UNCHANGED <<clock, loginState>>

publish_to_xiaohongshu(t) ==
    \/ XhsCheckCookie(t)
    \/ XhsGetDriver(t)
    \/ XhsStep(t)
    \/ XhsDescription(t)
    \/ XhsQuit(t)

publish_to_platforms(t) ==
    \/ TaskStart(t)
    \/ DispatchOther(t)
    \/ DispatchXiaohongshu(t)
    \/ publish_to_xiaohongshu(t)
    \/ XhsStore(t)
    \/ TaskWake(t)

\* --------------------------------------------------------- get_publish_status
\* a lookup that creates the entry it does not find (a defaultdict)
get_publish_status_Create(job_id) ==
    /\ loop = 0
    /\ publish_status' = IF job_id \in DOMAIN publish_status THEN publish_status
                         ELSE (job_id :> <<>>) @@ publish_status
    /\ response' = [endpoint |-> "publish_status", code |-> 200, success |-> TRUE,
                    message |-> "", action |-> "",
                    body |-> <<job_id, publish_status'[job_id]>>]
    /\ UNCHANGED <<clock, loginState, tasks, loop>>

\* lines 632-641; a caller may ask for any job id, known or not
get_publish_status(job_id) ==
    /\ loop = 0
    /\ response' =
          IF job_id \notin DOMAIN publish_status
          THEN HTTPException("publish_status", 404, "Job not found")
          ELSE [endpoint |-> "publish_status", code |-> 200, success |-> TRUE,
                message |-> "", action |-> "",
                body |-> <<job_id, publish_status[job_id]>>]
    /\ UNCHANGED <<clock, loginState, publishState>>

\* ================================================================ the system
\* the process has just started: the globals of lines 173-174; the cookie
\* file may be left from an earlier run
Init ==
    /\ clock = 0
    /\ selenium_monitor_active = FALSE
    /\ publish_status = <<>>
    /\ cookie_file \in {NoFile, "cookiesA"}
    /\ latest_login = <<>>
    /\ user_login_files = <<>>
    /\ watchers = [w \in WatcherIds |-> IdleWatcher]
    /\ tasks = [t \in TaskIds |-> IdleTask]
    /\ loop = 0
    /\ response = NoResponse

NextLogin ==
    \/ Tick
    \/ \E app_name \in AppNames : open_app(app_name)
    \/ \E w \in WatcherIds : monitor_xiaohongshu_login(w)

NextPublish ==
    \/ Tick
    \/ publish_video
    \/ \E t \in TaskIds : publish_to_platforms(t)

\* the job ids a client polls: that of a job accepted in second 0 or 1 (not
\* a key before it was accepted), and one that is never a key
JobIdsAsked == {0, 1, MaxClock + 1}

NextStatus ==
    \E job_id \in JobIdsAsked : get_publish_status(job_id)

Next == NextLogin \/ NextPublish \/ NextStatus

\* the launcher and the login watcher, no publish request
SpecLogin == Init /\ [][NextLogin]_vars

\* the same, with what the scheduling of a thread guarantees: every call
\* the watcher makes returns or raises (each wait is bounded, lines 237 and
\* 263), so a watcher that can take a step takes it, and time passes
SpecLoginFair ==
    /\ SpecLogin
    /\ WF_vars(Tick)
    /\ \A w \in WatcherIds : WF_vars(monitor_xiaohongshu_login(w))

\* the publish sequencer and the status tracker, no login request and no
\* status poll (a poll changes nothing but the response)
SpecPublish == Init /\ [][NextPublish]_vars

\* the same with status polls
SpecTracker == Init /\ [][NextPublish \/ NextStatus]_vars

Spec == Init /\ [][Next]_vars

\* every key of PLATFORM_PUBLISHERS and an id that is none
AllPlatformIds == PlatformIds \cup PLATFORM_PUBLISHERS

AllPlatformLists == UNION {[1..n -> AllPlatformIds] : n \in 0..MaxPlatforms}

\* one client that sends its next publish request when the job before has
\* finished, with any platform list
NextSequential ==
    \/ Tick
    \/ PublishVideoNotFound
    \/ /\ \A t \in TaskIds : tasks[t].pc \in {"unsubmitted", "done"}
       /\ \E platforms \in AllPlatformLists : PublishVideoAccepted(platforms)
    \/ \E t \in TaskIds : publish_to_platforms(t)

SpecSequential == Init /\ [][NextSequential]_vars

\* the platform lists of the one publish request of NextSession
SessionLists == {<<"xiaohongshu">>, <<"weibo">>}

\* one user session: one login watch and one publish job, in any
\* interleaving of the watcher thread with the event loop, with status polls
\* and further login requests at any time
NextSession ==
    \/ Tick
    \/ OpenAppAlreadyRunning("Xiaohongshu")
    \/ /\ \A w \in WatcherIds : watchers[w].pc = "idle"
       /\ OpenAppStartMonitor("Xiaohongshu")
    \/ \E w \in WatcherIds : monitor_xiaohongshu_login(w)
    \/ /\ \A t \in TaskIds : tasks[t].pc = "unsubmitted"
       /\ \E platforms \in SessionLists : PublishVideoAccepted(platforms)
    \/ \E t \in TaskIds : publish_to_platforms(t)
    \/ NextStatus

SpecSession == Init /\ [][NextSession]_vars

\* ==================================================================== claims
\* app_name reaches the special handler of line 479
IsLoginApp(app_name) ==
    \E app \in FindApp(app_name) : app.special_handler = "xiaohongshu_login"

\* ---- C1
\* a login request received while the flag is set changes no thread and no
\* flag and is answered, without an exception, success = false
C1_Rejected ==
    \A a \in AppNames :
        (IsLoginApp(a) /\ selenium_monitor_active /\ open_app(a))
        => /\ watchers' = watchers
           /\ selenium_monitor_active'
           /\ response'.code = 200
           /\ response'.success = FALSE
           /\ response'.message = "already_running"

\* a login request received while the flag is clear sets it and starts
\* exactly one thread
C1_Accepted ==
    \A a \in AppNames :
        (IsLoginApp(a) /\ ~selenium_monitor_active /\ open_app(a))
        => /\ selenium_monitor_active'
           /\ Cardinality({w \in WatcherIds : watchers'[w] # watchers[w]}) = 1
           /\ \E w \in WatcherIds : /\ watchers[w].pc = "idle"
                                    /\ watchers'[w].pc = "get_driver"
           /\ response'.success = TRUE

\* C1: at most one login watcher runs at any time, and the flag is set while
\* one runs; a login request while the flag is set starts no thread and is
\* answered success = false without an exception; a login request while the
\* flag is clear sets the flag and starts exactly one thread.
C1_OneWatcher ==
    /\ [](Cardinality(Running) <= 1 /\ (Running # {} => selenium_monitor_active))
    /\ [][C1_Rejected /\ C1_Accepted]_vars

\* a request was just rejected while a watcher polls
C1_Witness ==
    /\ response.message = "already_running"
    /\ \E w \in WatcherIds : watchers[w].pc = "poll"
    /\ \E w \in WatcherIds : watchers[w].pc = "done"

\* ---- C6
\* the watch of w has timed out: 30 polls timed out in a row
TimedOut(w) ==
    /\ watchers[w].pc \in {"timeout_quit", "finally"}
    /\ ~watchers[w].detected
    /\ watchers[w].wait_count = 30

C6_State ==
    \A w \in WatcherIds :
        /\ watchers[w].wait_count <= 30
        /\ watchers[w].pc = "poll" => watchers[w].wait_count < 30
        /\ watchers[w].pc = "timeout_quit" => watchers[w].wait_count = 30
        /\ (watchers[w].pc = "finally" /\ TimedOut(w))
           => /\ watchers[w].driver = "closed"
              /\ watchers[w].n_cookie = 0
              /\ watchers[w].n_hist = 0
              /\ watchers[w].n_latest = 0

C6_Step ==
    \A w \in WatcherIds :
        \* the thread ends with the flag cleared and writes nothing on its way
        /\ (TimedOut(w) /\ watchers'[w] # watchers[w])
           => /\ cookie_file' = cookie_file
              /\ latest_login' = latest_login
              /\ user_login_files' = user_login_files
              /\ watchers'[w].pc \in {"finally", "done"}
              /\ watchers'[w].pc = "done" => ~selenium_monitor_active'
        \* no retry: a thread that ended stays ended
        /\ watchers[w].pc = "done" => watchers'[w] = watchers[w]

\* C6: a login watch never starts a 31st poll; after its 30th timed-out poll
\* it closes the browser, clears selenium_monitor_active and ends for good,
\* having written neither the cookie file nor a user-login data file.
C6_Timeout == []C6_State /\ [][C6_Step]_vars

\* a watch has ended by timeout and the flag is clear
C6_Witness ==
    /\ ~selenium_monitor_active
    /\ \E w \in WatcherIds : /\ watchers[w].pc = "done"
                             /\ ~watchers[w].detected
                             /\ watchers[w].outcome = "timeout"
                             /\ watchers[w].driver = "closed"

CopiesOf(cookies) ==
    {stamp \in DOMAIN user_login_files : user_login_files[stamp].cookies = cookies}

UniqueJob(t) ==
    \A u \in TaskIds \ {t} : tasks[u].pc = "unsubmitted" \/ tasks[u].job_id # tasks[t].job_id

\* the record map of the job of task t
JobRecords(t) == publish_status[tasks[t].job_id]

Terminal == {"success", "failed"}

\* ---- C2
\* the step that accepts a request leaves its task not started, with a
\* pending record for every listed platform
C2_Step ==
    \A t \in TaskIds :
        (tasks[t].pc = "unsubmitted" /\ tasks'[t].pc # "unsubmitted")
        => /\ tasks'[t].pc = "queued"
           /\ tasks'[t].attempted = 0
           /\ tasks'[t].job_id \in DOMAIN publish_status'
           /\ \A k \in 1..Len(tasks'[t].platforms) :
                 LET p == tasks'[t].platforms[k]
                     m == publish_status'[tasks'[t].job_id]
                 IN p \in DOMAIN m /\ m[p].status = "pending" /\ m[p].platform = p

\* they are still pending as long as the task has not started (if no other
\* request took the same job id)
C2_State ==
    \A t \in TaskIds :
        (tasks[t].pc = "queued" /\ UniqueJob(t))
        => \A k \in 1..Len(tasks[t].platforms) :
              /\ tasks[t].platforms[k] \in DOMAIN JobRecords(t)
              /\ JobRecords(t)[tasks[t].platforms[k]].status = "pending"

\* C2: publish_video writes a pending record for every listed platform under
\* the job id before the background task of the job takes its first step.
C2_PendingFirst == []C2_State /\ [][C2_Step]_vars

\* a request with two platforms was accepted and its task has not started,
\* while an earlier job is between two platforms
C2_Witness ==
    \E t \in TaskIds :
        /\ tasks[t].pc = "queued"
        /\ UniqueJob(t)
        /\ Len(tasks[t].platforms) = 2
        /\ tasks[t].platforms[1] # tasks[t].platforms[2]
        /\ \A k \in 1..2 : JobRecords(t)[tasks[t].platforms[k]].status = "pending"
        /\ \E u \in TaskIds : tasks[u].pc = "sleeping"

\* ---- C3
NoRepeats(seq) == \A j, k \in 1..Len(seq) : seq[j] = seq[k] => j = k

\* C3: in a job (whose id no other request took and whose list names no
\* platform twice) the status of every platform's record changes only from
\* pending to uploading and from uploading to success or failed.
C3_StatusOrder ==
    [][\A t \in TaskIds :
          (/\ tasks[t].pc # "unsubmitted"
           /\ NoRepeats(tasks[t].platforms)
           /\ UniqueJob(t) /\ UniqueJob(t)')
          => \A p \in Range(tasks[t].platforms) :
                LET old == publish_status[tasks[t].job_id][p].status
                    new == publish_status'[tasks[t].job_id][p].status
                IN old # new => \/ old = "pending" /\ new = "uploading"
                                \/ old = "uploading" /\ new \in Terminal]_vars

\* ---- C4
\* the platforms of job_id whose record is uploading
Uploading(job_id) ==
    {p \in DOMAIN publish_status[job_id] : publish_status[job_id][p].status = "uploading"}

C4_State ==
    /\ \A job_id \in DOMAIN publish_status : Cardinality(Uploading(job_id)) <= 1
    /\ \A t \in TaskIds :
          LET x == tasks[t] IN
          /\ x.pc \in {"unsubmitted", "queued"} => x.attempted = 0 /\ x.results = 0
          /\ x.pc \in {"dispatch", "xhs"}
             => /\ x.i \in 1..Len(x.platforms)
                /\ x.attempted = x.i /\ x.results = x.i - 1
                /\ Uploading(x.job_id) = {x.platforms[x.i]}
          /\ x.pc = "sleeping" => x.attempted = x.i /\ x.results = x.i
          /\ x.pc = "done" => x.attempted = Len(x.platforms) /\ x.results = x.attempted

\* the k-th record a task marks uploading is that of the k-th platform of the
\* list, and it does so when the k-1 platforms before it have their results
C4_Step ==
    \A t \in TaskIds :
        tasks'[t].attempted # tasks[t].attempted
        => /\ tasks'[t].attempted = tasks[t].attempted + 1
           /\ tasks[t].results = tasks[t].attempted
           /\ tasks'[t].i = tasks'[t].attempted
           /\ Uploading(tasks[t].job_id) = {}
           /\ Uploading(tasks[t].job_id)' = {tasks[t].platforms[tasks'[t].i]}

\* C4: within a job the platforms are attempted in list order without
\* overlap: at most one record of the job is uploading at any moment, and the
\* record of a platform becomes uploading only after every platform before
\* it in the list has received its publisher result.
C4_Sequential == []C4_State /\ [][C4_Step]_vars

\* the second of two different platforms is being attempted
C4_Witness ==
    \E t \in TaskIds :
        /\ tasks[t].pc = "dispatch"
        /\ tasks[t].i = 2
        /\ tasks[t].platforms[1] # tasks[t].platforms[2]
        /\ JobRecords(t)[tasks[t].platforms[1]].status # "uploading"
        /\ JobRecords(t)[tasks[t].platforms[2]].status = "uploading"

\* ---- C5
\* the record returned at line 295
NotLoggedIn == PublishStatus("xiaohongshu", "failed", "login_first", "")

C5_State ==
    \A t \in TaskIds :
        (tasks[t].pc = "xhs" /\ cookie_file = NoFile)
        => /\ tasks[t].step \in {"check_cookie", "return"}
           /\ tasks[t].calls = <<>>
           /\ tasks[t].driver = "none" /\ tasks[t].leaked = 0
           /\ tasks[t].step = "return" => tasks[t].result = NotLoggedIn

C5_Step ==
    \A t \in TaskIds :
        (tasks[t].pc = "xhs" /\ tasks'[t].pc # "xhs" /\ cookie_file = NoFile)
        => /\ tasks'[t].pc = "sleeping"
           /\ tasks'[t].open_sessions = tasks[t].open_sessions
           /\ publish_status'[tasks[t].job_id]["xiaohongshu"] = NotLoggedIn

\* C5: a Xiaohongshu publish attempt made while the cookie file does not
\* exist ends with the failed record carrying the not-logged-in message,
\* and it neither creates a browser driver nor makes any other automation call.
C5_NoCookieNoBrowser == []C5_State /\ [][C5_Step]_vars

\* such an attempt has ended and its record is stored
C5_Witness ==
    \E t \in TaskIds :
        /\ tasks[t].pc = "sleeping"
        /\ tasks[t].platforms[tasks[t].i] = "xiaohongshu"
        /\ cookie_file = NoFile
        /\ JobRecords(t)["xiaohongshu"] = NotLoggedIn
        /\ tasks[t].open_sessions = 0

\* ---- C8
\* C8: a job created with platforms xiaohongshu, weibo whose Xiaohongshu
\* sequence completes ends with the xiaohongshu record success, the weibo
\* record failed with the unsupported-platform message, and 2 platforms
\* attempted.
C8_Scenario ==
    \A t \in TaskIds :
        (/\ tasks[t].pc = "done"
         /\ tasks[t].platforms = <<"xiaohongshu", "weibo">>
         /\ UniqueJob(t)
         /\ JobRecords(t)["xiaohongshu"].status = "success")
        => /\ JobRecords(t)["weibo"].status = "failed"
           /\ JobRecords(t)["weibo"].message = "unsupported_platform"
           /\ tasks[t].attempted = 2

\* ---- C9
\* C9: a record whose status is success or failed is never changed again.
C9_TerminalFrozen ==
    [][\A job_id \in DOMAIN publish_status :
          \A p \in DOMAIN publish_status[job_id] :
             publish_status[job_id][p].status \in Terminal
             => /\ job_id \in DOMAIN publish_status'
                /\ p \in DOMAIN publish_status'[job_id]
                /\ publish_status'[job_id][p] = publish_status[job_id][p]]_vars

\* ---- C10
\* C10: when the background task of a job has finished, the record of every
\* platform of the job is success or failed.
C10_AllTerminal ==
    \A t \in TaskIds :
        (tasks[t].pc = "done" /\ UniqueJob(t))
        => \A k \in 1..Len(tasks[t].platforms) :
              JobRecords(t)[tasks[t].platforms[k]].status \in Terminal

\* ---- C11
\* C11: a status query for a job id that is not a key of publish_status is
\* answered 404 'Job not found', a query for a known job id is answered with
\* the records publish_status holds for that job, and neither changes
\* publish_status (nor any task).
C11_StatusQuery ==
    [][/\ \A job_id \in JobIdsAsked :
             get_publish_status(job_id)
             => /\ publish_status' = publish_status
                /\ tasks' = tasks
                /\ job_id \notin DOMAIN publish_status
                   => /\ response'.code = 404
                      /\ response'.message = "Job not found"
                      /\ response'.body = <<>>
                /\ job_id \in DOMAIN publish_status
                   => /\ response'.code = 200
                      /\ response'.body = <<job_id, publish_status[job_id]>>
       /\ response'.endpoint = "publish_status" => publish_status' = publish_status]_vars

\* a query was answered with the records of a job that is between two
\* platforms, one record being terminal
C11_Witness ==
    /\ response.endpoint = "publish_status"
    /\ response.code = 200
    /\ \E t \in TaskIds :
          /\ tasks[t].pc = "sleeping"
          /\ response.body = <<tasks[t].job_id, publish_status[tasks[t].job_id]>>
          /\ \E p \in DOMAIN publish_status[tasks[t].job_id] :
                publish_status[tasks[t].job_id][p].status \in Terminal

\* ---- C12
\* C12: when a login watch has returned, the browser session its driver
\* variable was bound to is closed, also when the watch ended by an
\* unexpected exception. (The claim says the same of publish_to_xiaohongshu
\* and of sessions no variable holds.)
C12_WatcherSessionClosed ==
    \A w \in WatcherIds :
        watchers[w].pc = "done" => watchers[w].driver # "open"

\* ---- C13
\* the fixed result for a platform id other than xiaohongshu
FixedResult(p) ==
    IF p = "bilibili" THEN PublishStatus(p, "pending", "bilibili_in_development", "")
    ELSE IF p = "weibo" THEN PublishStatus(p, "pending", "weibo_in_development", "")
    ELSE PublishStatus(p, "failed", "unsupported_platform", "")

\* the platform task t is at
Current(t) == tasks[t].platforms[tasks[t].i]

C13_State ==
    \A t \in TaskIds :
        /\ tasks[t].pc = "xhs" => Current(t) = "xiaohongshu"
        /\ (tasks[t].pc = "dispatch" /\ Current(t) # "xiaohongshu")
           => tasks[t].calls = <<>> /\ tasks[t].driver = "none" /\ tasks[t].leaked = 0

C13_Step ==
    \A t \in TaskIds :
        (/\ tasks[t].pc = "dispatch"
         /\ Current(t) # "xiaohongshu"
         /\ tasks'[t] # tasks[t])
        => /\ tasks'[t].pc = "sleeping"
           /\ tasks'[t].open_sessions = tasks[t].open_sessions
           /\ publish_status'[tasks[t].job_id][Current(t)] = FixedResult(Current(t))

\* C13: for a platform id other than xiaohongshu (bilibili, weibo, or an id
\* without a publisher) the background task stores the fixed in-development
\* or unsupported-platform record in one step, without a browser session and
\* without an automation call.
C13_FixedResults == []C13_State /\ [][C13_Step]_vars

\* a job has the records of bilibili and of an unregistered id stored
C13_Witness ==
    \E t \in TaskIds :
        /\ tasks[t].pc = "sleeping"
        /\ tasks[t].platforms = <<"bilibili", "tiktok">>
        /\ tasks[t].i = 2
        /\ JobRecords(t)["bilibili"] = FixedResult("bilibili")
        /\ JobRecords(t)["tiktok"] = FixedResult("tiktok")
        /\ tasks[t].open_sessions = 0

\* ---- C14
\* C14: while the background task of a job is executing a platform's
\* publish sequence (its record is uploading), a status poll for the job
\* can be served.
C14_PollServedDuringPublish ==
    \A t \in TaskIds :
        tasks[t].pc \in {"dispatch", "xhs"} => ENABLED get_publish_status(tasks[t].job_id)

\* ---- C15
\* the jobs whose background task is inside a platform's publish sequence
Publishing == {t \in TaskIds : tasks[t].pc \in {"dispatch", "xhs"}}

C16_State ==
    /\ selenium_monitor_active <=> Running # {}
    /\ (Running = {} /\ \E w \in WatcherIds : watchers[w].pc = "idle")
       => ENABLED OpenAppStartMonitor("Xiaohongshu")

\* the step that ends a watch clears the flag, whatever the outcome
C16_Step ==
    \A w \in WatcherIds :
        (watchers[w].pc # "done" /\ watchers'[w].pc = "done")
        => /\ ~selenium_monitor_active'
           /\ watchers[w].outcome \in {"success", "timeout", "driver_missing", "error"}

\* C16: every started login watch terminates, on every outcome (detected,
\* timeout, driver binary missing, any other exception), with
\* selenium_monitor_active reset to false, so that a login request issued
\* after the watch has ended is accepted.
C16_WatchEnds ==
    /\ []C16_State
    /\ [][C16_Step]_vars
    /\ \A w \in WatcherIds : (w \in Running) ~> (watchers[w].pc = "done")

\* a watch has ended by an exception and the next login request was accepted
C16_Witness ==
    /\ response.action = "selenium_login"
    /\ \E w, v \in WatcherIds :
          /\ watchers[w].pc = "done" /\ watchers[w].outcome = "error"
          /\ watchers[w].detected
          /\ watchers[v].pc = "get_driver"

\* ---- C17
\* the place of a call in the program order of publish_to_xiaohongshu
CallIndex(call) == IF call = "get_driver" THEN 0 ELSE StepIndex(call)

\* the calls were made in program order, none twice and none left out but
\* the description
InOrder(calls) ==
    /\ calls # <<>> => calls[1] = "get_driver"
    /\ \A k \in 1..(Len(calls) - 1) :
          \/ CallIndex(calls[k + 1]) = CallIndex(calls[k]) + 1
          \/ /\ calls[k] = "title" /\ calls[k + 1] = "submit_locate"

\* C17: in a Xiaohongshu publish attempt the gated steps are made in strict
\* program order; the submit control is clicked only after the upload
\* confirmation was observed and the title was set; an attempt whose wait
\* for the upload confirmation fails ends with status failed, having waited
\* once and never clicked submit. A failed step is the last one made.
C17_GatedOrder ==
    \A t \in TaskIds :
        tasks[t].pc = "xhs"
        => LET x == tasks[t]
               made == Range(x.calls) IN
           /\ InOrder(x.calls)
           /\ "submit_click" \in made
              => {"file_input", "upload_wait", "title", "submit_locate",
                  "submit_enabled"} \subseteq made
                 /\ x.err \notin {"file_input", "upload_wait", "title",
                                  "submit_locate", "submit_enabled"}
           /\ x.err # ""
              => /\ x.step = "return"
                 /\ x.err = x.calls[Len(x.calls)]
                 /\ x.result.status = "failed"
           /\ x.err = "upload_wait"
              => /\ "submit_click" \notin made
                 /\ Cardinality({k \in 1..Len(x.calls) : x.calls[k] = "upload_wait"}) = 1

\* the wait for the upload confirmation has failed and the attempt returns
C17_Witness ==
    \E t \in TaskIds :
        /\ tasks[t].pc = "xhs" /\ tasks[t].step = "return"
        /\ tasks[t].err = "upload_wait"
        /\ tasks[t].calls = <<"get_driver", "home", "load_cookies", "publish_page",
                              "file_input", "upload_wait">>
        /\ tasks[t].result.status = "failed"
        /\ tasks[t].driver = "closed"

\* ---- C18
\* C18: no browser session is carried over from one publish attempt to the
\* next platform or to a later attempt: when an attempt has returned and its
\* result is stored, every session it opened is closed. (The claim also
\* says that an attempt past the cookie check opens exactly one session.)
C18_NoSessionCarriedOver ==
    \A t \in TaskIds :
        tasks[t].pc \in {"sleeping", "done"} => tasks[t].open_sessions = 0

\* ---- C19
\* the step that accepts a request names the job by the current second and
\* puts a fresh all-pending map under that id, whatever was there
C19_Accept ==
    \A u \in TaskIds :
        (tasks[u].pc = "unsubmitted" /\ tasks'[u].pc # "unsubmitted")
        => /\ tasks'[u].job_id = clock
           /\ \A t \in TaskIds \ {u} : tasks'[t] = tasks[t]
           /\ DOMAIN publish_status'[clock] = Range(tasks'[u].platforms)
           /\ \A p \in Range(tasks'[u].platforms) :
                 publish_status'[clock][p].status = "pending"
           /\ \A job_id \in DOMAIN publish_status \ {clock} :
                 publish_status'[job_id] = publish_status[job_id]

\* a task stores each result in the map that is under its job id at that
\* moment, whoever put the map there, and leaves the rest of it alone
C19_Store ==
    \A t \in TaskIds :
        tasks'[t].results = tasks[t].results + 1
        => LET job_id == tasks[t].job_id IN
           /\ DOMAIN publish_status'[job_id] = DOMAIN publish_status[job_id]
           /\ publish_status'[job_id][Current(t)].status # "uploading"
           /\ \A p \in DOMAIN publish_status[job_id] \ {Current(t)} :
                 publish_status'[job_id][p] = publish_status[job_id][p]

\* C19: a job id is the clock second in which the request was accepted, so
\* two requests accepted in the same second get the same id; the later one
\* replaces the whole record map under the id with its own all-pending
\* records, and the earlier job's task goes on writing into that map.
C19_JobIdCollision ==
    /\ [](\A t \in TaskIds : tasks[t].pc # "unsubmitted"
             => tasks[t].job_id \in DOMAIN publish_status /\ tasks[t].job_id <= clock)
    /\ [][C19_Accept /\ C19_Store]_vars

\* two requests of the same second: the map is the later one's, and the
\* earlier job's task has written its result into it
C19_Witness ==
    \E t, u \in TaskIds :
        /\ t < u
        /\ tasks[t].pc = "sleeping" /\ tasks[u].pc = "queued"
        /\ tasks[t].job_id = tasks[u].job_id
        /\ tasks[t].platforms = <<"tiktok">> /\ tasks[u].platforms = <<"weibo">>
        /\ DOMAIN JobRecords(u) = {"weibo", "tiktok"}
        /\ JobRecords(u)["weibo"].status = "pending"
        /\ JobRecords(u)["tiktok"].status = "failed"

\* ---- C20
\* C20: the cookie file is written only by a login watch that has detected
\* the success indicator, at lines 244-248, with the cookies it extracted;
\* no other step creates, modifies or deletes it: no step of a publish
\* attempt, no status query, no open-app request, no failing or timed-out
\* watch.
C20_CookieFileFrame ==
    [][/\ cookie_file' # cookie_file
          => \E w \in WatcherIds :
                /\ watchers[w].pc = "write_cookie" /\ watchers'[w].pc = "save_hist"
                /\ watchers[w].detected
                /\ watchers[w].cookies \in CookieSets
                /\ cookie_file' = watchers[w].cookies
       /\ (tasks' # tasks \/ response'.endpoint # "") => cookie_file' = cookie_file
       /\ \A w \in WatcherIds :
             (watchers[w].pc = "finally" /\ watchers[w].outcome # "success"
                 /\ watchers[w].n_cookie = 0)
             => cookie_file' = cookie_file]_vars

\* the watch wrote the cookie file while a publish attempt that had found
\* no cookie file was returning its not-logged-in record
C20_Witness ==
    /\ cookie_file = "cookiesB"
    /\ \E w \in WatcherIds : watchers[w].n_cookie = 1
    /\ \E t \in TaskIds :
          /\ tasks[t].pc = "xhs" /\ tasks[t].step = "return"
          /\ tasks[t].result = NotLoggedIn

\* ---- C21
\* the steps a successful attempt has completed: driver creation and every
\* step of lines 305-361 but the optional description
GatedCalls == {"get_driver"} \cup (Range(XhsSteps) \ {"description"})

C21_State ==
    \A t \in TaskIds :
        (tasks[t].pc = "xhs" /\ tasks[t].step = "return")
        => LET x == tasks[t] IN
           /\ x.result.platform = "xiaohongshu"
           /\ x.result.status \in {"success", "failed"}
           /\ x.result.status = "success"
              => /\ x.err = ""
                 /\ GatedCalls \subseteq Range(x.calls)
                 /\ InOrder(x.calls)
                 /\ SubSeq(x.calls, Len(x.calls) - 2, Len(x.calls))
                       = <<"submit_click", "success_wait", "quit">>
                 /\ x.driver = "closed"
           /\ x.err # ""
              => /\ x.err \in GatedCalls \cup {"description"}
                 /\ x.result = PublishStatus("xiaohongshu", "failed", "publish_failed", "str(e)")
           /\ (x.err = "" /\ x.result.status = "failed")
              => x.calls = <<>> /\ x.result = NotLoggedIn

\* the record the attempt returned is the one stored for the platform
C21_Step ==
    \A t \in TaskIds :
        (tasks[t].pc = "xhs" /\ tasks'[t].pc # "xhs")
        => /\ tasks[t].step = "return"
           /\ publish_status'[tasks[t].job_id]["xiaohongshu"] = tasks[t].result

\* C21: a Xiaohongshu publish attempt returns status success only if driver
\* creation and every gated step completed in order, up to and including
\* the success-URL wait after the submit click (and the closing of the
\* driver); when any of them raises or times out the attempt returns status
\* failed with the error text, and that is the record stored.
C21_SuccessOnlyIfAllSteps == []C21_State /\ [][C21_Step]_vars

\* an attempt with a description has completed every step and returns
\* success
C21_Witness ==
    \E t \in TaskIds :
        /\ tasks[t].pc = "xhs" /\ tasks[t].step = "return"
        /\ tasks[t].result.status = "success"
        /\ tasks[t].calls = <<"get_driver">> \o XhsSteps

====
